---- MODULE Spec2Model ----
(***************************************************************************)
(* Model of the warning-remediation engine of PyWarnFixer                  *)
(* (src/src/pywarnfixer/fixes/fixes.py).                                   *)
(*                                                                         *)
(* Text is a sequence of one-character strings.  A Python source file is   *)
(* abstracted to lines of the shape  <spaces><token>  where the token is   *)
(*   "d"  a function header   (def f(...):)                                *)
(*   "c"  a class header      (class C:)                                   *)
(*   "s"  a simple statement                                               *)
(* and blocks are delimited by indentation, as in Python.                  *)
(***************************************************************************)
EXTENDS Integers, Sequences, FiniteSets, TLC

\* ------------------------------------------------------------------ bounds
\* number of projects of the corpus walked by auto_fix
NumProjects == 2
\* largest number of lines of a pylint report
MaxWarnings == 2
\* number of dataset files walked by fetch_repositories
NumDatasets == 2
\* largest number of projects listed in a dataset file
MaxListed == 2

\* ------------------------------------------------------------ characters
NL == "\n"
SP == " "
Whitespace == {SP, NL}
BlockOpeners == {"d", "c"}
Tokens == {"d", "c", "s"}

\* content of a file that cannot be opened
Missing == <<"#missing">>

Spaces(n) == [i \in 1..n |-> SP]

\* one source line: indentation, token, line terminator
Ln(ind, tok) == Spaces(ind) \o <<tok, NL>>

\* --------------------------------------------------- Python str / list ops
RECURSIVE SplitFrom(_, _, _)
SplitFrom(s, i, cur) ==
    IF i > Len(s) THEN <<cur>>
    ELSE IF s[i] = NL THEN <<cur>> \o SplitFrom(s, i + 1, <<>>)
    ELSE SplitFrom(s, i + 1, Append(cur, s[i]))

\* str.split('\n')
SplitNL(s) == SplitFrom(s, 1, <<>>)

RECURSIVE ReadFrom(_, _, _)
ReadFrom(s, i, cur) ==
    IF i > Len(s) THEN (IF cur = <<>> THEN <<>> ELSE <<cur>>)
    ELSE IF s[i] = NL THEN <<Append(cur, NL)>> \o ReadFrom(s, i + 1, <<>>)
    ELSE ReadFrom(s, i + 1, Append(cur, s[i]))

\* file.readlines(): the physical lines, each with its terminator
ReadLines(s) == ReadFrom(s, 1, <<>>)

RECURSIVE JoinNL(_)
\* '\n'.join(lines)
JoinNL(lines) ==
    IF lines = <<>> THEN <<>>
    ELSE IF Len(lines) = 1 THEN lines[1]
    ELSE lines[1] \o <<NL>> \o JoinNL(Tail(lines))

RECURSIVE WriteLines(_)
\* file.writelines(lines)
WriteLines(lines) ==
    IF lines = <<>> THEN <<>> ELSE lines[1] \o WriteLines(Tail(lines))

\* len(line) - len(line.lstrip())
RECURSIVE LeadingWs(_)
LeadingWs(line) ==
    IF line = <<>> THEN 0
    ELSE IF line[1] \in Whitespace THEN 1 + LeadingWs(Tail(line))
    ELSE 0

\* not line.strip()
IsBlank(line) == \A i \in 1..Len(line) : line[i] \in Whitespace

\* line.strip()
Strip(line) ==
    IF IsBlank(line) THEN <<>>
    ELSE LET lo == CHOOSE i \in 1..Len(line) :
                     /\ line[i] \notin Whitespace
                     /\ \A j \in 1..(i - 1) : line[j] \in Whitespace
             hi == CHOOSE i \in 1..Len(line) :
                     /\ line[i] \notin Whitespace
                     /\ \A j \in (i + 1)..Len(line) : line[j] \in Whitespace
         IN  SubSeq(line, lo, hi)

\* Python's normalisation of a slice bound / insert position
PyClamp(i, n) == IF i < 0 THEN (IF i + n < 0 THEN 0 ELSE i + n)
                 ELSE IF i > n THEN n ELSE i

\* del lines[lo:hi]
PyDelSlice(lines, lo, hi) ==
    LET n == Len(lines)
        a == PyClamp(lo, n)
        b == PyClamp(hi, n)
    IN  IF b <= a THEN lines
        ELSE SubSeq(lines, 1, a) \o SubSeq(lines, b + 1, n)

\* lines.insert(i, x)
PyInsert(lines, i, x) ==
    LET n == Len(lines)
        a == PyClamp(i, n)
    IN  SubSeq(lines, 1, a) \o <<x>> \o SubSeq(lines, a + 1, n)

\* ------------------------------------------------------ Python structure
LineTok(line) == Strip(line)[1]

\* a logical line the compiler accepts: one token, indented
ValidLine(line) == Len(Strip(line)) = 1 /\ Strip(line)[1] \in Tokens

RECURSIVE PopTo(_, _)
PopTo(stack, ind) ==
    IF stack[Len(stack)] = ind THEN stack
    ELSE PopTo(SubSeq(stack, 1, Len(stack) - 1), ind)

RECURSIVE ParseBlocks(_, _, _, _)
\* the tokenizer's INDENT/DEDENT discipline over the lines of a module
ParseBlocks(lines, i, stack, expect) ==
    IF i > Len(lines) THEN ~expect
    ELSE IF IsBlank(lines[i]) THEN ParseBlocks(lines, i + 1, stack, expect)
    ELSE IF ~ValidLine(lines[i]) THEN FALSE
    ELSE LET ind == LeadingWs(lines[i])
             top == stack[Len(stack)]
             opens == LineTok(lines[i]) \in BlockOpeners
         IN  IF expect
             THEN ind > top /\ ParseBlocks(lines, i + 1, Append(stack, ind), opens)
             ELSE /\ ind <= top
                  /\ \E k \in 1..Len(stack) : stack[k] = ind
                  /\ ParseBlocks(lines, i + 1, PopTo(stack, ind), opens)

\* compile(script, file_path, 'exec') succeeds
Compiles(src) == ParseBlocks(SplitNL(src), 1, <<0>>, FALSE)

CheckAlwaysTrue(content) == TRUE

CheckReadableOnly(content) == content # Missing

\* check_python_file
check_python_file(content) == content # Missing /\ Compiles(content)

\* ------------------------------------------------------------ ast module
\* indentation of source line i (1-based) of a parsed module
IndentAt(lines, i) == LeadingWs(lines[i])

\* the statements of the block opened at line i end at BlockEnd (end_lineno)
BlockEnd(lines, i) ==
    CHOOSE k \in (i + 1)..Len(lines) :
        /\ ~IsBlank(lines[k])
        /\ \A m \in (i + 1)..k :
              IsBlank(lines[m]) \/ IndentAt(lines, m) > IndentAt(lines, i)
        /\ \A k2 \in (k + 1)..Len(lines) :
              \/ IsBlank(lines[k2])
              \/ \E m \in (i + 1)..k2 :
                    ~IsBlank(lines[m]) /\ IndentAt(lines, m) <= IndentAt(lines, i)

IsOpener(lines, i) == ~IsBlank(lines[i]) /\ LineTok(lines[i]) \in BlockOpeners

\* nesting depth of the node at line i in the tree returned by ast.parse
Depth(lines, i) ==
    Cardinality({j \in 1..(i - 1) : IsOpener(lines, j) /\ i <= BlockEnd(lines, j)})

\* the ast.FunctionDef nodes of the tree: [lineno, end_lineno, depth]
FunctionDefs(lines) ==
    {[lineno |-> i, end_lineno |-> BlockEnd(lines, i), depth |-> Depth(lines, i)] :
        i \in {j \in 1..Len(lines) : ~IsBlank(lines[j]) /\ LineTok(lines[j]) = "d"}}

\* n1 is yielded before n2 by a breadth-first walk
WalkBefore(n1, n2) ==
    \/ n1.depth < n2.depth
    \/ n1.depth = n2.depth /\ n1.lineno < n2.lineno

RECURSIVE WalkSeq(_)
WalkSeq(nodes) ==
    IF nodes = {} THEN <<>>
    ELSE LET first == CHOOSE n \in nodes : \A m \in nodes \ {n} : WalkBefore(n, m)
         IN  <<first>> \o WalkSeq(nodes \ {first})

\* the FunctionDef nodes in the order ast.walk(tree) yields them
AstWalk(src) == WalkSeq(FunctionDefs(SplitNL(src)))

\* ------------------------------------------------------------ span locator
NoSpan == [exc |-> "none", text |-> <<>>, start |-> 0, end |-> 0]

ExtractLineOffByOne(src, line_number) ==
    LET lines == ReadLines(src)
        n == Len(lines)
        idx == line_number
    IN  IF src = Missing THEN [NoSpan EXCEPT !.exc = "FileNotFoundError"]
        ELSE IF idx >= n \/ idx < 0 - n
        THEN [NoSpan EXCEPT !.exc = "IndexError"]
        ELSE [exc |-> "none",
              text |-> lines[(IF idx < 0 THEN idx + n ELSE idx) + 1],
              start |-> line_number, end |-> line_number]

\* extract_code_from_context, case Context.LINE
ExtractLine(src, line_number) ==
    LET lines == ReadLines(src)
        n == Len(lines)
        idx == line_number - 1
    IN  IF src = Missing THEN [NoSpan EXCEPT !.exc = "FileNotFoundError"]
        ELSE IF idx >= n \/ idx < 0 - n
        THEN [NoSpan EXCEPT !.exc = "IndexError"]
        ELSE [exc |-> "none",
              text |-> lines[(IF idx < 0 THEN idx + n ELSE idx) + 1],
              start |-> line_number, end |-> line_number]

RECURSIVE FirstContaining(_, _, _)
\* index of the first node of the walk whose range contains the line, else 0
FirstContaining(walk, k, line_number) ==
    IF k > Len(walk) THEN 0
    ELSE IF walk[k].lineno <= line_number /\ line_number <= walk[k].end_lineno
    THEN k
    ELSE FirstContaining(walk, k + 1, line_number)

MethodSpan(src, node) ==
    [exc |-> "none",
     text |-> JoinNL(SubSeq(SplitNL(src), node.lineno, node.end_lineno)),
     start |-> node.lineno, end |-> node.end_lineno]

ExtractMethodNoFallback(src, line_number) ==
    LET walk == AstWalk(src)
        k == FirstContaining(walk, 1, line_number)
    IN  IF src = Missing THEN [NoSpan EXCEPT !.exc = "FileNotFoundError"]
        ELSE IF ~Compiles(src) THEN [NoSpan EXCEPT !.exc = "SyntaxError"]
        ELSE IF k > 0 THEN MethodSpan(src, walk[k]) ELSE NoSpan

\* extract_method_from_line
extract_method_from_line(src, line_number) ==
    LET walk == AstWalk(src)
        k == FirstContaining(walk, 1, line_number)
    IN  IF src = Missing THEN [NoSpan EXCEPT !.exc = "FileNotFoundError"]
        ELSE IF ~Compiles(src) THEN [NoSpan EXCEPT !.exc = "SyntaxError"]
        ELSE IF k > 0 THEN MethodSpan(src, walk[k])
        ELSE ExtractLine(src, line_number)

\* extract_code_from_context
extract_code_from_context(src, line_number, context) ==
    CASE context = "line" -> ExtractLine(src, line_number)
      [] context = "method" -> extract_method_from_line(src, line_number)
      [] OTHER -> NoSpan

\* ------------------------------------------------------------ patch applier
ReplaceFromStart(content, new_code, code_start, code_end) ==
    LET lines == ReadLines(content)
        kept == PyDelSlice(lines, code_start, code_end)
    IN  WriteLines(PyInsert(kept, code_start, new_code))

\* replace_code_in_file
replace_code_in_file(content, new_code, code_start, code_end) ==
    LET lines == ReadLines(content)
        kept == PyDelSlice(lines, code_start - 1, code_end)
    IN  WriteLines(PyInsert(kept, code_start - 1, new_code))

RECURSIVE FirstNonBlank(_, _)
FirstNonBlank(lines, k) ==
    IF k > Len(lines) THEN 0
    ELSE IF ~IsBlank(lines[k]) THEN k
    ELSE FirstNonBlank(lines, k + 1)

\* get_starting_indentation
get_starting_indentation(code) ==
    LET lines == SplitNL(code)
        k == FirstNonBlank(lines, 1)
    IN  IF k = 0 THEN 0 ELSE LeadingWs(lines[k])

\* add_indentation
add_indentation(code, indentation) ==
    LET lines == SplitNL(code)
        indented == [k \in 1..Len(lines) |->
                        IF ~IsBlank(lines[k])
                        THEN Spaces(indentation) \o lines[k]
                        ELSE lines[k]]
    IN  JoinNL(indented) \o <<NL>>

\* ------------------------------------------------------------ fix catalog
\* PYLINT_FIXES: (name, code, context) in registry order
PYLINT_FIXES ==
    << [name |-> "no-else-return", code |-> "R1705", context |-> "method"],
       [name |-> "unspecified-encoding", code |-> "W1514", context |-> "method"],
       [name |-> "use-implicit-booleaness-not-comparison", code |-> "C1803",
        context |-> "line"],
       [name |-> "consider-using-with", code |-> "R1732", context |-> "method"],
       [name |-> "unnecessary-comprehension", code |-> "R1721", context |-> "line"],
       [name |-> "consider-using-in", code |-> "R1714", context |-> "line"],
       [name |-> "chained-comparison", code |-> "R1716", context |-> "line"],
       [name |-> "useless-return", code |-> "R1711", context |-> "method"],
       [name |-> "no-else-break", code |-> "R1723", context |-> "method"],
       [name |-> "consider-using-ternary", code |-> "R1706", context |-> "line"] >>

RECURSIVE ScanFixes(_, _)
\* the registry entries the inner loop of auto_fix applies to a warning:
\* the scan stops (break) at the first entry whose code matches
ScanFixes(k, error_code) ==
    IF k > Len(PYLINT_FIXES) THEN <<>>
    ELSE IF PYLINT_FIXES[k].code = error_code THEN <<PYLINT_FIXES[k]>>
    ELSE ScanFixes(k + 1, error_code)

SelectFixesOrFirst(error_code) ==
    IF ScanFixes(1, error_code) = <<>> THEN <<PYLINT_FIXES[1]>>
    ELSE ScanFixes(1, error_code)

SelectFixes(error_code) == ScanFixes(1, error_code)

\* ------------------------------------------------------------ report parser
\* int(parts[1]) is defined on these fields and raises ValueError on the others
IntOf == [t \in {"1", "2", "3", "4", "5", "6"} |->
            CASE t = "1" -> 1 [] t = "2" -> 2 [] t = "3" -> 3
              [] t = "4" -> 4 [] t = "5" -> 5 [] t = "6" -> 6]

RECURSIVE ParseLines(_, _)
\* a report line is the list  parts = line.strip().split(':')  of its fields
ParseLines(report, k) ==
    IF k > Len(report) THEN <<>>
    ELSE LET parts == report[k]
         IN  IF Len(parts) >= 5 /\ parts[2] \in DOMAIN IntOf
             THEN << [file_path |-> parts[1], line_number |-> IntOf[parts[2]],
                      character |-> parts[3], error_code |-> parts[4],
                      error_message |-> parts[5]] >> \o ParseLines(report, k + 1)
             ELSE ParseLines(report, k + 1)

\* parse_pylint_warnings
parse_pylint_warnings(report) == ParseLines(report, 1)

RECURSIVE LoggedLines(_, _)
\* the lines parse_pylint_warnings passes to logging.warning: those of the
\* except ValueError branch
LoggedLines(report, k) ==
    IF k > Len(report) THEN <<>>
    ELSE LET parts == report[k]
         IN  IF Len(parts) >= 5 /\ parts[2] \notin DOMAIN IntOf
             THEN <<parts>> \o LoggedLines(report, k + 1)
             ELSE LoggedLines(report, k + 1)

\* reversed(warnings)
Reversed(ws) == [k \in 1..Len(ws) |-> ws[Len(ws) + 1 - k]]

\* ------------------------------------------------------------ fix suggester
\* In an API response, "F" stands for an opening fence with the python tag
\* and "E" for a bare fence (three backquotes); the closing fence of the
\* pattern also matches the first three characters of an opening fence.
OpenFence == "F"
CloseFences == {"E", "F"}

\* the pattern (fence, whitespace run, lazy group, whitespace run, fence)
\* matches at i with a first run of a whitespace characters and a group of
\* b characters
FenceMatch(text, i, a, b) ==
    /\ text[i] = OpenFence
    /\ i + a <= Len(text)
    /\ \A j \in (i + 1)..(i + a) : text[j] \in Whitespace
    /\ \E c \in 1..Len(text) :
          LET e == i + a + b + c + 1
          IN  /\ e <= Len(text)
              /\ text[e] \in CloseFences
              /\ \A j \in (i + a + b + 1)..(e - 1) : text[j] \in Whitespace

MatchesAt(text, i) ==
    {ab \in (1..Len(text)) \X (0..Len(text)) : FenceMatch(text, i, ab[1], ab[2])}

\* re.search(pattern, text, re.DOTALL): leftmost start, greedy first run,
\* lazy group; returns the group, or the text itself when nothing matches
ExtractCode(text) ==
    LET starts == {i \in 1..Len(text) : MatchesAt(text, i) # {}}
    IN  IF starts = {} THEN text
        ELSE LET i == CHOOSE x \in starts : \A y \in starts : x <= y
                 ms == MatchesAt(text, i)
                 a == CHOOSE x \in {m[1] : m \in ms} :
                         \A y \in {m[1] : m \in ms} : x >= y
                 b == CHOOSE x \in {m[2] : m \in {n \in ms : n[1] = a}} :
                         \A y \in {m[2] : m \in {n \in ms : n[1] = a}} : x <= y
             IN  SubSeq(text, i + a + 1, i + a + b)

\* anthropic_request: the API call raises, or answers with a text
SuggesterReplies ==
    {[raised |-> TRUE, text |-> <<>>]} \cup
    {[raised |-> FALSE, text |-> t] :
        t \in { <<"s">>,
                <<SP, "s">>,
                <<"F", NL, "s", NL, "s", NL, "E">> }}

\* ------------------------------------------------------------ one warning
ApplyFixNoAssert(content, fix, warning, reply) ==
    LET span == extract_code_from_context(content, warning.line_number, fix.context)
        new_code == ExtractCode(reply.text)
        indented == add_indentation(new_code, get_starting_indentation(span.text))
        patched == replace_code_in_file(content, indented, span.start, span.end)
        base == [outcome |-> "skipped", content |-> content, located |-> FALSE,
                 span |-> NoSpan, suggested |-> FALSE, response |-> <<>>,
                 new_code |-> <<>>, indented |-> <<>>, written |-> FALSE]
    IN  IF ~check_python_file(content) THEN base
        ELSE IF span.exc # "none" THEN [base EXCEPT !.outcome = span.exc]
        ELSE IF reply.raised
        THEN [base EXCEPT !.outcome = "SuggesterError", !.located = TRUE,
                          !.span = span, !.suggested = TRUE]
        ELSE [outcome |-> "patched",
              content |-> patched, located |-> TRUE, span |-> span,
              suggested |-> TRUE, response |-> reply.text,
              new_code |-> new_code, indented |-> indented, written |-> TRUE]

\* apply_fix_to_warning on a file of the given content; the result carries
\* the content left on disk and how the call ended
apply_fix_to_warning(content, fix, warning, reply) ==
    LET span == extract_code_from_context(content, warning.line_number, fix.context)
        new_code == ExtractCode(reply.text)
        indented == add_indentation(new_code, get_starting_indentation(span.text))
        patched == replace_code_in_file(content, indented, span.start, span.end)
        base == [outcome |-> "skipped", content |-> content, located |-> FALSE,
                 span |-> NoSpan, suggested |-> FALSE, response |-> <<>>,
                 new_code |-> <<>>, indented |-> <<>>, written |-> FALSE]
    IN  IF ~check_python_file(content) THEN base
        ELSE IF span.exc # "none" THEN [base EXCEPT !.outcome = span.exc]
        ELSE IF reply.raised
        THEN [base EXCEPT !.outcome = "SuggesterError", !.located = TRUE,
                          !.span = span, !.suggested = TRUE]
        ELSE [outcome |-> IF check_python_file(patched)
                          THEN "patched" ELSE "AssertionError",
              content |-> patched, located |-> TRUE, span |-> span,
              suggested |-> TRUE, response |-> reply.text,
              new_code |-> new_code, indented |-> indented, written |-> TRUE]

Escapes(outcome) ==
    outcome \in {"IndexError", "SuggesterError", "AssertionError",
                 "FileNotFoundError", "SyntaxError"}

\* ------------------------------------------------------------ inputs
\* a.py: a class with a method that contains an inner function, followed by
\* a class-level statement
NestedSrc == Ln(0, "c") \o Ln(1, "d") \o Ln(2, "d") \o Ln(3, "s") \o Ln(1, "s")
\* a function header without a body: does not compile
BrokenSrc == Ln(0, "d") \o Ln(0, "s")
\* b.py: two module-level statements, the last line without a terminator
FlatSrc == <<"s", NL, "s">>

FileNames == {"a.py", "b.py"}

\* the source trees a project can have on disk when auto_fix reaches it
Repos ==
    {[f \in FileNames |-> IF f = "a.py" THEN c ELSE FlatSrc] :
        c \in {NestedSrc, BrokenSrc, Missing}}

\* lines of pylint_output_w.txt, as split on ':'
ReportLines ==
    { <<"a.py", "4", "0", "R1705", "m">>,
      <<"a.py", "3", "0", "R1705", "m">>,
      <<"a.py", "5", "0", "R1705", "m">>,
      <<"a.py", "6", "0", "R1705", "m">>,
      <<"a.py", "4", "0", "C1803", "m">>,
      <<"a.py", "6", "0", "C1803", "m">>,
      <<"a.py", "2", "0", "E0602", "m">>,
      <<"b.py", "2", "0", "C1803", "m">>,
      <<"a.py", "x", "0", "R1705", "m">>,
      <<"********** Module a">> }

RECURSIVE SeqsUpTo(_, _)
SeqsUpTo(S, n) ==
    IF n = 0 THEN {<<>>}
    ELSE LET shorter == SeqsUpTo(S, n - 1)
         IN  shorter \cup {Append(q, x) : q \in shorter, x \in S}

Reports == SeqsUpTo(ReportLines, MaxWarnings)

\* ------------------------------------------------------------ datasets
\* fetch.py: a project of a dataset file is the text  creator/name
Projects == { <<"o", "/", "a">>, <<"o", "/", "b">>, <<"p", "/", "a">> }

RECURSIVE SplitSlashFrom(_, _, _)
SplitSlashFrom(s, i, cur) ==
    IF i > Len(s) THEN <<cur>>
    ELSE IF s[i] = "/" THEN <<cur>> \o SplitSlashFrom(s, i + 1, <<>>)
    ELSE SplitSlashFrom(s, i + 1, Append(cur, s[i]))

\* project.split('/')
SplitSlash(s) == SplitSlashFrom(s, 1, <<>>)

\* read_dataset_file: the first column of the rows after the header; a
\* dataset lists a project once
DatasetFiles ==
    {q \in SeqsUpTo(Projects, MaxListed) :
        \A i, j \in 1..Len(q) : q[i] = q[j] => i = j}

\* get_repository_size: the stripped output of the line count, empty when
\* the command printed nothing
Sizes == { <<>>, <<"7">> }

\* analyze_repository returns after the analysis, returns early when the
\* repository cannot be fetched, or fails on opening the pylint output in
\* a directory that was never cloned
AnalyzeOutcomes == {"analysed", "unavailable", "FileNotFoundError"}

\* an item of the list repositories: a project read from the dataset, or
\* the list [project, size] appended by the loop
StrItem(project) == [str |-> TRUE, project |-> project, size |-> <<>>]
ListItem(project, size) == [str |-> FALSE, project |-> project, size |-> size]

\* csv.writer.writerows(repositories): a str item is written as a row of
\* its characters, a list item as the row of its two elements
CsvRow(item) ==
    IF item.str THEN [c \in 1..Len(item.project) |-> <<item.project[c]>>]
    ELSE <<item.project, item.size>>

CsvRows(repositories) == [k \in 1..Len(repositories) |-> CsvRow(repositories[k])]

\* no project_sizes file written for a dataset
NoCsv == [written |-> FALSE, listed |-> <<>>, rows |-> <<>>]

\* fetch_repositories is not running
NoFetch == [at |-> "idle", dataset |-> 0, listed |-> <<>>,
            repositories |-> <<>>, i |-> 0, analysed |-> <<>>,
            csv |-> <<>>, error |-> "none"]

\* ------------------------------------------------------------ state
VARIABLES
    pc,            \* where auto_fix is: "begin", "fix", "done", "crashed"
    proj,          \* index of the project being processed
    files,         \* contents of the files of the project being processed
    todo,          \* warnings the loop over reversed(warnings) has yet to visit
    tests_passed,  \* result of the baseline run_tests
    error,         \* the exception that left auto_fix, or "none"
    orig,          \* history: contents of the files when the report was made
    handed,        \* history: warnings passed to apply_fix_to_warning, in order
    last,          \* history: the warning visited last and what was done
    runs,          \* history: run_tests calls made for the project begun last
    call,          \* history: a function called on its own, arguments and result
    fetch          \* fetch_repositories: position, list iterated, files written

vars == <<pc, proj, files, todo, tests_passed, error, orig, handed, last,
          runs, call, fetch>>

NoWarning == [file_path |-> "", line_number |-> 0, character |-> "",
              error_code |-> "", error_message |-> ""]

NoLast == [visited |-> FALSE, warning |-> NoWarning, fixes |-> <<>>,
           pre |-> <<>>, outcome |-> "none", located |-> FALSE,
           span |-> NoSpan, suggested |-> FALSE, response |-> <<>>,
           new_code |-> <<>>, indented |-> <<>>, written |-> FALSE]

\* no function of the engine was called on its own
NoCall == [fn |-> "none"]

Init ==
    /\ pc = "begin"
    /\ proj = 1
    /\ files \in Repos
    /\ todo = <<>>
    /\ tests_passed = FALSE
    /\ error = "none"
    /\ orig = files
    /\ handed = <<>>
    /\ last = NoLast
    /\ runs = 0
    /\ call = NoCall
    /\ fetch = NoFetch

\* auto_fix lines 41-44: parse the project's report, run the baseline tests
BeginProject ==
    /\ pc = "begin"
    /\ \E report \in Reports, passed \in BOOLEAN :
          /\ todo' = Reversed(parse_pylint_warnings(report))
          /\ tests_passed' = passed
    /\ pc' = "fix"
    /\ runs' = 1
    /\ UNCHANGED <<proj, files, error, orig, handed, last, call, fetch>>

\* auto_fix line 49: apply_fix_to_warning(fix, warning) is called and ends
HandOver(warning, fixes, reply) ==
    LET file == warning.file_path
        r == apply_fix_to_warning(files[file], fixes[1], warning, reply)
    IN  /\ files' = [files EXCEPT ![file] = r.content]
        /\ handed' = Append(handed, warning)
        /\ last' = [visited |-> TRUE, warning |-> warning,
                    fixes |-> fixes, pre |-> files[file],
                    outcome |-> r.outcome, located |-> r.located,
                    span |-> r.span, suggested |-> r.suggested,
                    response |-> r.response, new_code |-> r.new_code,
                    indented |-> r.indented, written |-> r.written]
        /\ IF Escapes(r.outcome)
           THEN pc' = "crashed" /\ error' = r.outcome
           ELSE UNCHANGED <<pc, error>>

\* auto_fix lines 46-50: one iteration of the loop over reversed(warnings)
FixWarning ==
    /\ pc = "fix"
    /\ todo # <<>>
    /\ LET warning == Head(todo)
           fixes == SelectFixes(warning.error_code)
           file == warning.file_path
       IN  IF fixes = <<>>
           THEN /\ last' = [NoLast EXCEPT !.visited = TRUE, !.warning = warning,
                                          !.pre = files[file]]
                /\ todo' = Tail(todo)
                /\ UNCHANGED <<pc, files, error, handed>>
           ELSE /\ \E reply \in SuggesterReplies : HandOver(warning, fixes, reply)
                /\ todo' = IF pc' = "crashed" THEN todo ELSE Tail(todo)
    /\ UNCHANGED <<proj, tests_passed, orig, runs, call, fetch>>

\* the next project's tree is on disk when the loop over repositories goes on
NextProject ==
    /\ proj' = proj + 1
    /\ IF proj < NumProjects
       THEN /\ pc' = "begin"
            /\ files' \in Repos
            /\ orig' = files'
            /\ handed' = <<>>
            /\ last' = NoLast
       ELSE /\ pc' = "done"
            /\ UNCHANGED <<files, orig, handed, last>>

\* auto_fix lines 52-53: the warnings are exhausted, the gate is run
EndProject ==
    /\ pc = "fix"
    /\ todo = <<>>
    /\ IF tests_passed
       THEN /\ runs' = runs + 1
            /\ \E again \in BOOLEAN :
                 IF again
                 THEN NextProject /\ UNCHANGED error
                 ELSE /\ pc' = "crashed"
                      /\ error' = "AssertionError"
                      /\ UNCHANGED <<proj, files, orig, handed, last>>
       ELSE NextProject /\ UNCHANGED <<error, runs>>
    /\ UNCHANGED <<todo, tests_passed, call, fetch>>

Next == BeginProject \/ FixWarning \/ EndProject

Spec == Init /\ [][Next]_vars

\* ------------------------------------------------------------ single calls
\* The functions of the engine called on their own, on arguments drawn from
\* the inputs above: apply_fix_to_warning with a policy of any granularity of
\* the Context enum, parse_pylint_warnings and check_python_file.
Contexts == {"line", "method", "class", "file", "module", "project"}

\* PylintFix(name, code, context=...) for every member of Context
AnyFixes == {[name |-> "any", code |-> "R1705", context |-> c] : c \in Contexts}

\* the warning records the report lines parse to
AnyWarnings ==
    {parse_pylint_warnings(<<l>>)[1] :
        l \in {x \in ReportLines : parse_pylint_warnings(<<x>>) # <<>>}}

\* an answer with a fenced block without language tag
BareFenced == <<"E", NL, "s", NL, "E">>

\* the answers of the API to a request about the given span: those of the
\* batch, a block fenced without tag, and the code of the request itself
AnyReplies(content, warning, fix) ==
    SuggesterReplies \cup
    {[raised |-> FALSE, text |-> t] :
        t \in {BareFenced,
               extract_code_from_context(content, warning.line_number,
                                         fix.context).text}}

InitCalls ==
    /\ pc = "call"
    /\ proj = 1
    /\ files \in Repos
    /\ todo = <<>>
    /\ tests_passed = FALSE
    /\ error = "none"
    /\ orig = files
    /\ handed = <<>>
    /\ last = NoLast
    /\ runs = 0
    /\ call = NoCall
    /\ fetch = NoFetch

\* apply_fix_to_warning(fix, warning)
CallApplyFix ==
    /\ pc = "call"
    /\ call = NoCall
    /\ \E warning \in AnyWarnings, fix \in AnyFixes :
          \E reply \in AnyReplies(files[warning.file_path], warning, fix) :
             /\ HandOver(warning, <<fix>>, reply)
             /\ call' = [fn |-> "apply_fix_to_warning"]
    /\ UNCHANGED <<proj, todo, tests_passed, orig, runs, fetch>>

\* parse_pylint_warnings(file_path)
CallParse ==
    /\ pc = "call"
    /\ call = NoCall
    /\ \E report \in Reports :
          call' = [fn |-> "parse_pylint_warnings", report |-> report,
                   warnings |-> parse_pylint_warnings(report),
                   logged |-> LoggedLines(report, 1)]
    /\ UNCHANGED <<pc, proj, files, todo, tests_passed, error, orig, handed,
                   last, runs, fetch>>

\* check_python_file(file_path)
CallCheck ==
    /\ pc = "call"
    /\ call = NoCall
    /\ \E f \in FileNames :
          call' = [fn |-> "check_python_file", file_path |-> f,
                   content |-> files[f],
                   result |-> check_python_file(files[f])]
    /\ UNCHANGED <<pc, proj, files, todo, tests_passed, error, orig, handed,
                   last, runs, fetch>>

NextCalls == CallApplyFix \/ CallParse \/ CallCheck

SpecCalls == InitCalls /\ [][NextCalls]_vars

\* ------------------------------------------------------------ fetch
\* fetch_repositories of fetch.py; the loops over ENGAGEMENTS and
\* STRATA_RANGES are one walk over the dataset files
InitFetch ==
    /\ pc = "fetch"
    /\ proj = 1
    /\ files = [f \in FileNames |-> FlatSrc]
    /\ todo = <<>>
    /\ tests_passed = FALSE
    /\ error = "none"
    /\ orig = files
    /\ handed = <<>>
    /\ last = NoLast
    /\ runs = 0
    /\ call = NoCall
    /\ fetch = [NoFetch EXCEPT !.at = "read", !.dataset = 1,
                                !.csv = [d \in 1..NumDatasets |-> NoCsv]]

\* lines 24-25: repositories = read_dataset_file(dataset_file_path)
ReadDataset ==
    /\ pc = "fetch"
    /\ fetch.at = "read"
    /\ \E listed \in DatasetFiles :
          fetch' = [fetch EXCEPT !.at = "loop", !.listed = listed,
                                 !.repositories =
                                     [k \in 1..Len(listed) |-> StrItem(listed[k])],
                                 !.i = 0, !.analysed = <<>>]
    /\ UNCHANGED <<pc, proj, files, todo, tests_passed, error, orig, handed,
                   last, runs, call>>

\* lines 27-32: one iteration of  for project in repositories ; the list
\* iterator yields the item at the next index as long as the list, as it
\* is now, has one
IterateProject ==
    /\ pc = "fetch"
    /\ fetch.at = "loop"
    /\ fetch.i < Len(fetch.repositories)
    /\ LET project == fetch.repositories[fetch.i + 1]
       IN  IF ~project.str
           THEN fetch' = [fetch EXCEPT !.at = "crashed", !.i = @ + 1,
                                       !.error = "AttributeError"]
           ELSE IF Len(SplitSlash(project.project)) # 2
           THEN fetch' = [fetch EXCEPT !.at = "crashed", !.i = @ + 1,
                                       !.error = "ValueError"]
           ELSE \E outcome \in AnalyzeOutcomes, size \in Sizes :
                  LET done == Append(fetch.analysed,
                                     [project |-> project.project,
                                      outcome |-> outcome])
                  IN  IF outcome = "FileNotFoundError"
                      THEN fetch' = [fetch EXCEPT !.at = "crashed", !.i = @ + 1,
                                                  !.analysed = done,
                                                  !.error = outcome]
                      ELSE fetch' = [fetch EXCEPT
                                        !.i = @ + 1, !.analysed = done,
                                        !.repositories =
                                            Append(@, ListItem(project.project,
                                                               size))]
    /\ UNCHANGED <<pc, proj, files, todo, tests_passed, error, orig, handed,
                   last, runs, call>>

\* lines 34-35: the iterator is exhausted, save_repositories_to_csv writes
\* the list, and the walk goes on with the next dataset file
SaveSizes ==
    /\ pc = "fetch"
    /\ fetch.at = "loop"
    /\ fetch.i >= Len(fetch.repositories)
    /\ fetch' = [fetch EXCEPT
                    !.csv[fetch.dataset] =
                        [written |-> TRUE, listed |-> fetch.listed,
                         rows |-> CsvRows(fetch.repositories)],
                    !.dataset = @ + 1,
                    !.at = IF fetch.dataset < NumDatasets THEN "read" ELSE "done"]
    /\ UNCHANGED <<pc, proj, files, todo, tests_passed, error, orig, handed,
                   last, runs, call>>

NextFetch == ReadDataset \/ IterateProject \/ SaveSizes

SpecFetch == InitFetch /\ [][NextFetch]_vars

\* ------------------------------------------------------------ vocabulary
LastFile == last.warning.file_path
LastLine == last.warning.line_number
LastContext == last.fixes[1].context

\* the warning visited last was handed to apply_fix_to_warning
Handed == last.visited /\ last.fixes # <<>>

\* ... and its file passed the check made before locating the span
Extracted == Handed /\ check_python_file(last.pre)

\* number of physical lines of a text, counted on its characters
PhysicalLineCount(s) ==
    Cardinality({q \in 1..Len(s) : s[q] = NL})
        + (IF s # <<>> /\ s[Len(s)] # NL THEN 1 ELSE 0)

\* t is physical line n of s, line terminator included
IsPhysicalLine(s, n, t) ==
    /\ t # <<>>
    /\ \E p \in 1..Len(s) :
          /\ p = 1 \/ s[p - 1] = NL
          /\ Cardinality({q \in 1..(p - 1) : s[q] = NL}) = n - 1
          /\ p + Len(t) - 1 <= Len(s)
          /\ t = SubSeq(s, p, p + Len(t) - 1)
          /\ \A q \in 1..(Len(t) - 1) : t[q] # NL
          /\ t[Len(t)] = NL \/ p + Len(t) - 1 = Len(s)

\* the function definitions of the file of the last warning whose range
\* contains the warning line
Enclosing ==
    {n \in FunctionDefs(SplitNL(last.pre)) :
        n.lineno <= LastLine /\ LastLine <= n.end_lineno}

RegistryCodes == {PYLINT_FIXES[k].code : k \in 1..Len(PYLINT_FIXES)}

\* ------------------------------------------------------------ claims
\* C1: the warnings of one file are handed to apply_fix_to_warning in
\* descending line-number order, whatever the order of the report lines.
C1_DescendingWithinFile ==
    \A i, j \in 1..Len(handed) :
        (i < j /\ handed[i].file_path = handed[j].file_path)
            => handed[i].line_number >= handed[j].line_number

\* the warnings of file f handed over so far came highest line first
HighestFirst(f) ==
    \A i, j \in 1..Len(handed) :
        (i < j /\ handed[i].file_path = f /\ handed[j].file_path = f)
            => handed[i].line_number > handed[j].line_number

\* C2: when the warnings of a file are processed highest line first, the
\* physical line L of a warning being located is still the line the file had
\* at L when the report was produced.
C2_PendingLineIntact ==
    (/\ Handed
     /\ last.located
     /\ HighestFirst(LastFile)
     /\ LastLine <= PhysicalLineCount(orig[LastFile]))
        => /\ LastLine <= PhysicalLineCount(last.pre)
           /\ ReadLines(last.pre)[LastLine] = ReadLines(orig[LastFile])[LastLine]

\* C3: when the file fails validation after a patch was written, the file is
\* back to its pre-patch content once the processing of the warning has ended.
C3_InvalidPatchReverted ==
    (Handed /\ last.written /\ ~check_python_file(files[LastFile]))
        => files[LastFile] = last.pre

\* C4: when auto_fix has ended, every warning of every project was visited:
\* no failure of one warning or project stops the run.
C4_RunContinues ==
    pc \in {"done", "crashed"} => (proj = NumProjects + 1 /\ todo = <<>>)

\* C5: a warning whose line number exceeds the line count of its file is
\* skipped without an exception and the file is left untouched.
C5_OutOfRangeSkipped ==
    (/\ Handed
     /\ last.pre # Missing
     /\ LastLine > PhysicalLineCount(last.pre))
        => /\ last.outcome = "skipped"
           /\ files[LastFile] = last.pre

\* C6: for method granularity the span returned is the innermost function
\* definition containing the warning line: no other definition containing
\* the line lies strictly inside the returned range.
C6_InnermostFunction ==
    (Extracted /\ LastContext = "method" /\ last.located /\ Enclosing # {})
        => \A n \in Enclosing :
              ~(/\ last.span.start <= n.lineno
                /\ n.end_lineno <= last.span.end
                /\ (last.span.start < n.lineno \/ n.end_lineno < last.span.end))

\* C7: for line granularity and a line number between 1 and the line count,
\* the span is start_line = end_line = line_number and its text is exactly
\* that physical line, terminator included.
C7_SingleLineSpan ==
    (/\ Extracted
     /\ LastContext = "line"
     /\ LastLine >= 1
     /\ LastLine <= PhysicalLineCount(last.pre))
        => /\ last.located
           /\ last.span.start = LastLine
           /\ last.span.end = LastLine
           /\ IsPhysicalLine(last.pre, LastLine, last.span.text)

C7_Witness ==
    /\ Extracted
    /\ LastContext = "line"
    /\ last.located
    /\ LastLine = PhysicalLineCount(last.pre)
    /\ last.span.text[Len(last.span.text)] # NL

\* C8: for method granularity, when no function definition contains the
\* warning line, the span is the single line start_line = end_line =
\* line_number instead of a failure.
C8_FallbackToLine ==
    (/\ Extracted
     /\ LastContext = "method"
     /\ Enclosing = {}
     /\ LastLine >= 1
     /\ LastLine <= PhysicalLineCount(last.pre))
        => /\ last.located
           /\ last.span.start = LastLine
           /\ last.span.end = LastLine
           /\ IsPhysicalLine(last.pre, LastLine, last.span.text)

C8_Witness ==
    /\ Extracted
    /\ LastContext = "method"
    /\ Enclosing = {}
    /\ FunctionDefs(SplitNL(last.pre)) # {}
    /\ last.located
    /\ last.span.start = LastLine

\* C9: a warning whose code matches no registry entry is skipped (nothing
\* located, suggester not called, nothing written, no error); a warning whose
\* code matches is fixed by at most one policy, one of its own code.
C9_UnmatchedSkipped ==
    last.visited =>
        /\ Len(last.fixes) <= 1
        /\ \A k \in 1..Len(last.fixes) :
              last.fixes[k].code = last.warning.error_code
        /\ last.warning.error_code \notin RegistryCodes =>
              /\ ~last.located
              /\ ~last.suggested
              /\ ~last.written
              /\ last.outcome = "none"
              /\ files[LastFile] = last.pre

C9_Witness ==
    /\ last.visited
    /\ last.warning.error_code \notin RegistryCodes
    /\ last.fixes = <<>>
    /\ check_python_file(files[LastFile])

\* C10: the first non-blank line of the re-indented replacement has exactly
\* the indentation width of the original span, the other non-blank lines keep
\* their offset to it, and blank lines are unchanged.
C10_ReindentNormalises ==
    (Handed /\ last.written) =>
        LET w == get_starting_indentation(last.span.text)
            inp == SplitNL(last.new_code)
            out == SplitNL(last.indented)
            f == FirstNonBlank(inp, 1)
        IN  /\ Len(out) = Len(inp) + 1
            /\ \A k \in 1..Len(inp) :
                  IF IsBlank(inp[k]) THEN out[k] = inp[k]
                  ELSE LeadingWs(out[k]) - w = LeadingWs(inp[k]) - LeadingWs(inp[f])

\* offset of the k-th line terminator of s (0 for k = 0, Len(s) when s has
\* fewer than k terminators)
TerminatorOffset(s, k) ==
    IF k = 0 THEN 0
    ELSE IF Cardinality({q \in 1..Len(s) : s[q] = NL}) < k THEN Len(s)
    ELSE CHOOSE p \in 1..Len(s) :
            /\ s[p] = NL
            /\ Cardinality({q \in 1..p : s[q] = NL}) = k

\* C11: replace_code_in_file with 1 <= start <= end <= line count leaves the
\* lines before start unchanged, then new_code as one block, then the lines
\* after end unchanged: exactly the lines start..end are removed.
C11_ReplaceFrame ==
    (/\ Handed
     /\ last.written
     /\ 1 <= last.span.start
     /\ last.span.start <= last.span.end
     /\ last.span.end <= PhysicalLineCount(last.pre))
        => files[LastFile] =
              SubSeq(last.pre, 1, TerminatorOffset(last.pre, last.span.start - 1))
              \o last.indented
              \o SubSeq(last.pre, TerminatorOffset(last.pre, last.span.end) + 1,
                        Len(last.pre))

C11_Witness ==
    /\ Handed
    /\ last.written
    /\ 1 < last.span.start
    /\ last.span.start < last.span.end
    /\ last.span.end < PhysicalLineCount(last.pre)
    /\ files[LastFile] # last.pre

\* the physical lines of a text without their terminators
LinesOf(s) ==
    [k \in 1..Len(ReadLines(s)) |->
        SelectSeq(ReadLines(s)[k], LAMBDA c : c # NL)]

\* C12: applying the text of the located span back as the replacement over
\* [start_line, end_line] leaves the file identical, line for line.
C12_NoOpRoundTrip ==
    (/\ Handed
     /\ LastContext \in {"line", "method"}
     /\ last.written
     /\ last.response = last.span.text)
        => LinesOf(files[LastFile]) = LinesOf(last.pre)

\* the file cannot be read or does not parse
Malformed(content) == content = Missing \/ ~Compiles(content)

\* C13: apply_fix_to_warning on a file that is malformed before the patch
\* skips the warning: no span located, suggester not called, file not
\* written, no exception.
C13_MalformedNeverPatched ==
    (Handed /\ Malformed(last.pre))
        => /\ ~last.located
           /\ ~last.suggested
           /\ ~last.written
           /\ last.outcome = "skipped"
           /\ files[LastFile] = last.pre

C13_Witness ==
    /\ Handed
    /\ last.pre # Missing
    /\ ~Compiles(last.pre)
    /\ last.outcome = "skipped"
    /\ pc = "fix"

\* C14: for every project the test suite is run exactly once before the
\* first patch, never between two patches, and exactly once after the last
\* patch, whatever the outcome of the baseline run.
C14_TestsBeforeAndAfter ==
    /\ pc = "fix" => runs = 1
    /\ (pc \in {"begin", "done"} /\ proj > 1) => runs = 2

\* positions of the fences of a response, with or without language tag
FencesOf(text) == {i \in 1..Len(text) : text[i] \in CloseFences}

\* the response holds a fenced block: an opening fence and a later fence
HasFencedBlock(text) == Cardinality(FencesOf(text)) >= 2

\* what stands between the first fence of the response and the next one
FirstFencedBlock(text) ==
    LET i == CHOOSE x \in FencesOf(text) : \A y \in FencesOf(text) : x <= y
        rest == FencesOf(text) \ {i}
        j == CHOOSE x \in rest : \A y \in rest : x <= y
    IN  SubSeq(text, i + 1, j - 1)

\* C15: the replacement used for a response is the content of the first
\* fenced block of the response (up to surrounding whitespace) when the
\* response holds a fenced block, tagged with a language or not, and the
\* whole response unmodified otherwise.
C15_FirstFencedBlockOrWhole ==
    (Handed /\ last.written)
        => last.new_code = IF HasFencedBlock(last.response)
                           THEN Strip(FirstFencedBlock(last.response))
                           ELSE last.response

\* C16: when the call of the suggester raises, the warning is skipped: its
\* file is left as it was, nothing leaves the processing of the warning,
\* and the loop goes on with the next warning.
C16_SuggesterErrorSkipped ==
    (Handed /\ last.suggested /\ last.outcome = "SuggesterError")
        => /\ files[LastFile] = last.pre
           /\ pc # "crashed"
           /\ error = "none"

\* a report line of at least five fields whose second field is an integer
WarningShaped(parts) == Len(parts) >= 5 /\ parts[2] \in DOMAIN IntOf

NotWarningShaped(parts) == ~WarningShaped(parts)

\* C17: parse_pylint_warnings returns one record for every line of at least
\* five fields with an integer second field, in report order, and every
\* other line yields no record and is logged as skipped.
C17_ParseSkipsAndLogs ==
    call.fn = "parse_pylint_warnings"
        => LET shaped == SelectSeq(call.report, WarningShaped)
           IN  /\ Len(call.warnings) = Len(shaped)
               /\ \A k \in 1..Len(shaped) :
                     /\ call.warnings[k].file_path = shaped[k][1]
                     /\ call.warnings[k].line_number = IntOf[shaped[k][2]]
                     /\ call.warnings[k].character = shaped[k][3]
                     /\ call.warnings[k].error_code = shaped[k][4]
                     /\ call.warnings[k].error_message = shaped[k][5]
               /\ call.logged = SelectSeq(call.report, NotWarningShaped)

\* C18: check_python_file returns true exactly when the file can be read
\* and parses as Python source, false for a syntax error or an unreadable
\* file; no exception leaves it and the file is as it was.
C18_CheckIsTotalAndPure ==
    call.fn = "check_python_file"
        => /\ call.result = (call.content # Missing /\ Compiles(call.content))
           /\ files[call.file_path] = call.content
           /\ files = orig
           /\ error = "none"

C18_Witness ==
    /\ call.fn = "check_python_file"
    /\ call.content = BrokenSrc
    /\ ~call.result

\* C19: for a granularity other than line and method the span located is
\* the physical warning line, start_line = end_line = line_number >= 1.
C19_OtherContextsAreLine ==
    (Handed /\ last.located /\ LastContext \notin {"line", "method"})
        => /\ last.span.start = LastLine
           /\ last.span.end = LastLine
           /\ LastLine >= 1
           /\ IsPhysicalLine(last.pre, LastLine, last.span.text)

\* C20: a call of apply_fix_to_warning on a file that passes
\* check_python_file, if it returns normally, leaves a file that passes
\* check_python_file; so while auto_fix is between two warnings, every file
\* that was well-formed at the start of the project is well-formed.
C20_WellFormednessPreserved ==
    /\ (Handed /\ check_python_file(last.pre) /\ ~Escapes(last.outcome))
          => check_python_file(files[LastFile])
    /\ pc = "fix"
          => \A f \in FileNames :
                check_python_file(orig[f]) => check_python_file(files[f])

C20_Witness ==
    /\ pc = "fix"
    /\ Handed
    /\ check_python_file(last.pre)
    /\ last.outcome = "patched"
    /\ files[LastFile] # last.pre
    /\ Len(handed) >= 2

\* the projects passed to analyze_repository for the dataset being walked
AnalysedProjects == [k \in 1..Len(fetch.analysed) |-> fetch.analysed[k].project]

\* the rows (project, size) of a project_sizes file
IsSizeRowOf(row, project) ==
    Len(row) = 2 /\ row[1] = project /\ row[2] \in Sizes

\* C21: fetch_repositories analyses each project listed in a dataset file
\* exactly once, its loop over the project list ends after the last listed
\* project without raising, and the project_sizes file then written has
\* exactly one (project, size) row per listed project.
C21_FetchTerminates ==
    /\ fetch.error \notin {"AttributeError", "ValueError"}
    /\ fetch.at \in {"loop", "crashed"}
          => /\ fetch.i <= Len(fetch.listed)
             /\ AnalysedProjects = SubSeq(fetch.listed, 1, Len(fetch.analysed))
    /\ fetch.at \in {"read", "loop", "done", "crashed"}
          => \A d \in 1..NumDatasets :
                fetch.csv[d].written
                    => /\ Len(fetch.csv[d].rows) = Len(fetch.csv[d].listed)
                       /\ \A k \in 1..Len(fetch.csv[d].rows) :
                             IsSizeRowOf(fetch.csv[d].rows[k],
                                         fetch.csv[d].listed[k])
    /\ (fetch.at = "loop" /\ fetch.i = Len(fetch.listed))
          => fetch.i >= Len(fetch.repositories)

====
